---- MODULE Spec2Model ----
(***************************************************************************)
(* Model of the screwdrivercd deploy-key utility                           *)
(* (src/screwdrivercd/screwdriver/github_deploykey.py) and of the          *)
(* documentation command line utility (src/screwdrivercd/documentation/    *)
(* cli.py).                                                                *)
(*                                                                         *)
(* Python values are tagged records [t, v]: t is the Python type ("None",  *)
(* "str", "bytes"), v the sequence of its elements.  Text is a sequence of *)
(* one-character strings; key material is a sequence of code points (str)  *)
(* or of octets (bytes).                                                   *)
(***************************************************************************)
EXTENDS Integers, Sequences, FiniteSets, TLC

\* ------------------------------------------------------------------------
\* Bounds
\* ------------------------------------------------------------------------
\* Number of earlier ssh-keyscan appends the known-hosts file may already hold.
MaxPriorScans == 1

\* ------------------------------------------------------------------------
\* Python values
\* ------------------------------------------------------------------------
None == [t |-> "None", v |-> <<>>]
Str(s) == [t |-> "str", v |-> s]
Bytes(s) == [t |-> "bytes", v |-> s]

\* Python truthiness of None / str / bytes: "not x" is Falsy(x).
Falsy(x) == x.t = "None" \/ x.v = <<>>

\* needle in hay, for two sequences of the same element kind.
Contains(needle, hay) ==
    \E i \in 0..(Len(hay) - Len(needle)) :
        SubSeq(hay, i + 1, i + Len(needle)) = needle

\* Python's "a in b" on str/bytes operands: mixing str and bytes raises.
PyIn(a, b) ==
    IF a.t # b.t THEN [exc |-> "TypeError", val |-> FALSE]
    ELSE [exc |-> "None", val |-> Contains(a.v, b.v)]

Whitespace == {" ", "\t", "\n"}

\* bytes.strip() / str.strip()
RECURSIVE LStrip(_)
LStrip(s) == IF s # <<>> /\ Head(s) \in Whitespace THEN LStrip(Tail(s)) ELSE s

RECURSIVE RStrip(_)
RStrip(s) ==
    IF s # <<>> /\ s[Len(s)] \in Whitespace
    THEN RStrip(SubSeq(s, 1, Len(s) - 1)) ELSE s

Strip(s) == LStrip(RStrip(s))

\* s.split(sep) for a one-character separator: always at least one field.
RECURSIVE SplitOn(_, _)
SplitOn(s, sep) ==
    IF \A i \in 1..Len(s) : s[i] # sep THEN <<s>>
    ELSE LET k == CHOOSE i \in 1..Len(s) :
                      s[i] = sep /\ \A j \in 1..(i - 1) : s[j] # sep
         IN <<SubSeq(s, 1, k - 1)>> \o SplitOn(SubSeq(s, k + 1, Len(s)), sep)

\* s.split() with no argument: runs of whitespace separate, no empty fields.
RECURSIVE SplitWS(_)
SplitWS(s) ==
    LET t == LStrip(s) IN
    IF t = <<>> THEN <<>>
    ELSE IF \A i \in 1..Len(t) : t[i] \notin Whitespace THEN <<t>>
    ELSE LET k == CHOOSE i \in 1..Len(t) :
                      t[i] \in Whitespace /\ \A j \in 1..(i - 1) : t[j] \notin Whitespace
         IN <<SubSeq(t, 1, k - 1)>> \o SplitWS(SubSeq(t, k + 1, Len(t)))

\* ", ".join(list of str)
RECURSIVE Join(_)
Join(l) ==
    IF l = <<>> THEN <<>>
    ELSE IF Len(l) = 1 THEN l[1]
    ELSE l[1] \o <<",", " ">> \o Join(Tail(l))

\* ------------------------------------------------------------------------
\* base64.b64decode (binascii.a2b_base64, non-strict mode)
\* ------------------------------------------------------------------------
B64Alphabet ==
    <<"A","B","C","D","E","F","G","H","I","J","K","L","M","N","O","P","Q","R",
      "S","T","U","V","W","X","Y","Z","a","b","c","d","e","f","g","h","i","j",
      "k","l","m","n","o","p","q","r","s","t","u","v","w","x","y","z","0","1",
      "2","3","4","5","6","7","8","9","+","/">>

B64Index(c) == (CHOOSE i \in 1..Len(B64Alphabet) : B64Alphabet[i] = c) - 1

IsB64Char(c) == \E i \in 1..Len(B64Alphabet) : B64Alphabet[i] = c

\* Characters outside the alphabet are skipped; "=" counts as padding only
\* once two characters of a quad were read; decoding stops when the padding
\* completes a quad; a quad left open at the end of the input is an error.
RECURSIVE a2b_base64(_, _, _, _, _, _)
a2b_base64(s, i, quad_pos, pads, leftchar, out) ==
    IF i > Len(s)
    THEN IF quad_pos # 0 THEN [exc |-> "binascii.Error", val |-> Bytes(<<>>)]
         ELSE [exc |-> "None", val |-> Bytes(out)]
    ELSE IF s[i] = "="
    THEN IF quad_pos >= 2 /\ quad_pos + pads + 1 >= 4
         THEN [exc |-> "None", val |-> Bytes(out)]
         ELSE a2b_base64(s, i + 1, quad_pos,
                         IF quad_pos >= 2 THEN pads + 1 ELSE pads, leftchar, out)
    ELSE IF ~IsB64Char(s[i])
    THEN a2b_base64(s, i + 1, quad_pos, pads, leftchar, out)
    ELSE LET c == B64Index(s[i]) IN
         CASE quad_pos = 0 -> a2b_base64(s, i + 1, 1, 0, c, out)
           [] quad_pos = 1 -> a2b_base64(s, i + 1, 2, 0, c % 16,
                                         Append(out, (leftchar * 4) + (c \div 16)))
           [] quad_pos = 2 -> a2b_base64(s, i + 1, 3, 0, c % 4,
                                         Append(out, (leftchar * 16) + (c \div 4)))
           [] OTHER        -> a2b_base64(s, i + 1, 0, 0, 0,
                                         Append(out, (leftchar * 64) + c))

b64decode(s) == a2b_base64(s.v, 1, 0, 0, 0, <<>>)

\* The encoding a text-mode file applies to the characters written (UTF-8).
RECURSIVE Utf8Encode(_)
Utf8Encode(s) ==
    IF s = <<>> THEN <<>>
    ELSE (IF Head(s) < 128 THEN <<Head(s)>>
          ELSE <<192 + (Head(s) \div 64), 128 + (Head(s) % 64)>>) \o Utf8Encode(Tail(s))

\* ------------------------------------------------------------------------
\* Module constants of github_deploykey.py
\* ------------------------------------------------------------------------
OldFingerprint ==
    <<"1","6",":","2","7",":","a","c",":","a","5",":","7","6",":","2","8",":",
      "2","d",":","3","6",":","6","3",":","1","b",":","5","6",":","4","d",":",
      "e","b",":","d","f",":","a","6",":","4","8">>

NewFingerprint ==
    <<"S","H","A","2","5","6",":","n","T","h","b","g","6","k","X","U","p","J",
      "W","G","l","7","E","1","I","G","O","C","s","p","R","o","m","T","x","d",
      "C","A","R","L","v","i","K","w","6","E","5","S","Y","8">>

\* The fingerprints dict, in insertion (= iteration) order.
fingerprints ==
    << [desc |-> "old github fingerprint", fingerprint |-> Bytes(OldFingerprint)],
       [desc |-> "new github_fingerprint", fingerprint |-> Bytes(NewFingerprint)] >>

\* The manifest template; only its identity matters to the model.
ssh_agent_deploy_conf == <<"ssh_agent_deploy_conf">>

\* git_key_secret without the "if not git_key" guard: the value of
\* os.environ.get goes to b64decode, which rejects None.
git_key_secret_unguarded(GIT_KEY) ==
    IF GIT_KEY.t = "None" THEN [exc |-> "TypeError", val |-> Str(<<>>)]
    ELSE b64decode(GIT_KEY)

\* git_key_secret(): '' when GIT_KEY is unset or empty, else the decoded bytes.
git_key_secret(GIT_KEY) ==
    IF Falsy(GIT_KEY) THEN [exc |-> "None", val |-> Str(<<>>)]
    ELSE b64decode(GIT_KEY)

\* ------------------------------------------------------------------------
\* Inputs: environment, arguments and outputs of the external commands
\* ------------------------------------------------------------------------
\* GIT_KEY: unset, empty, base64 of "dummy-key", base64 of "key", only
\* characters outside the alphabet (decodes to b''), and a truncated quad.
GitKeyValues ==
    { None,
      Str(<<>>),
      Str(<<"Z","H","V","t","b","X","k","t","a","2","V","5">>),
      Str(<<"a","2","V","5">>),
      Str(<<"!","!","!">>),
      Str(<<"a","b","c">>) }

\* "dummy-key" as octets.
DummyKey == <<100,117,109,109,121,45,107,101,121>>

\* Arguments of a direct load_github_key call: text keys (one non-ASCII),
\* a bytes key, an empty key.
LoadKeyArgs ==
    { Str(DummyKey), Str(<<107,233>>), Bytes(<<107,101,121>>), Str(<<>>) }

\* Output of ssh-keyscan -H github.com (exit status 0): hashed entries, or
\* nothing when no key was collected.
ScanOutputs == { <<"|1|salt|hash ssh-rsa AAAAB3", "\n">>, <<>> }

KeygenPre == <<"2","0","4","8"," ">>
KeygenPost == <<" ","g","i","t","h","u","b",".","c","o","m"," ","(","R","S","A",")","\n">>

\* Output of ssh-keygen -l -f (exit status 0): both fingerprints, each one
\* alone, a fingerprint cut short by one character, none.
KeygenOutputs ==
    { KeygenPre \o OldFingerprint \o KeygenPost \o KeygenPre \o NewFingerprint \o KeygenPost,
      KeygenPre \o OldFingerprint \o KeygenPost,
      KeygenPre \o NewFingerprint \o KeygenPost,
      KeygenPre \o SubSeq(NewFingerprint, 1, Len(NewFingerprint) - 1) \o KeygenPost,
      <<>> }

Origin == <<"o","r","i","g","i","n">>
Upstream == <<"u","p","s","t","r","e","a","m">>
PushType == <<"(","p","u","s","h",")">>
FetchType == <<"(","f","e","t","c","h",")">>
Http == <<"h","t","t","p">>
HttpsUrl ==
    <<"h","t","t","p","s",":","/","/","e","x","a","m","p","l","e",".","c","o","m",
      "/","o","r","g","/","r","e","p","o">>
SshUrl ==
    <<"g","i","t","@","e","x","a","m","p","l","e",".","c","o","m",":","o","r","g",
      "/","r","e","p","o">>
RemoteLine(remote, url, type) == remote \o <<"\t">> \o url \o <<" ">> \o type

\* Output of git remote -v (exit status 0).  git ends every line with a
\* newline; the outputs without one are those of a substituted command runner.
RemoteOutputs ==
    { RemoteLine(Origin, HttpsUrl, PushType),
      RemoteLine(Origin, HttpsUrl, FetchType) \o <<"\n">>
          \o RemoteLine(Origin, HttpsUrl, PushType) \o <<"\n">>,
      RemoteLine(Origin, SshUrl, PushType),
      RemoteLine(Origin, HttpsUrl, FetchType),
      RemoteLine(Upstream, HttpsUrl, PushType),
      RemoteLine(Upstream, HttpsUrl, PushType) \o <<"\n">>,
      <<"o","r","i","g","i","n">>,
      <<>> }

FormatsValues ==
    { None, Str(<<>>), Str(<<"h","t","m","l">>),
      Str(<<"h","t","m","l",","," ","p","d","f">>) }

PublishValues == { "unset", "true", "false", "0" }

Mains == { "setup_ssh_main", "add_deploykey_main" }

Programs ==
    Mains \cup { "add_github_to_known_hosts", "validate_known_good_hosts",
                 "load_github_key", "set_git_mail_config", "update_git_remote",
                 "install_ssh_agent", "main" }

\* Mode of a file that open() creates: 0666 masked by the process umask.
CreateMode(umask) == IF umask = "077" THEN "0600" ELSE "0644"

\* A closed file: existence, permission bits, content on disk, and the
\* content still held in the writer's buffer while it is open.
NoFile == [exists |-> FALSE, mode |-> "none", data |-> <<>>, buf |-> <<>>, open |-> FALSE]

RECURSIVE PriorData(_)
PriorData(k) ==
    IF k = 0 THEN <<>> ELSE PriorData(k - 1) \o <<"\n", "|1|old|entry ssh-rsa AAAA", "\n">>

\* The known-hosts file as earlier runs may have left it.
KnownHostsStates ==
    { NoFile } \cup
    { [exists |-> TRUE, mode |-> m, data |-> PriorData(k), buf |-> <<>>, open |-> FALSE] :
          m \in {"0600", "0644"}, k \in 0..MaxPriorScans }

NoLocals ==
    [ git_key |-> None, github_hosts |-> <<>>, output |-> Bytes(<<>>), match |-> FALSE,
      idx |-> 1, lines |-> <<>>, new_git_url |-> None, documentation_formats |-> None ]

Running == [kind |-> "running", value |-> ""]
Returned(v) == [kind |-> "return", value |-> v]
Raised(e) == [kind |-> "raise", value |-> e]
Exited(c) == [kind |-> "exit", value |-> c]

\* ------------------------------------------------------------------------
\* State
\* ------------------------------------------------------------------------
VARIABLES
    prog,         \* the entry point or function this process runs
    pc,           \* position in the code
    outcome,      \* how the run ended: return value, uncaught exception, exit
    pending,      \* exception unwinding through a with block, or "None"
    environ,      \* environment variables, logger level, PATH, umask, argument
    known_hosts,  \* the known-hosts file
    ssh_dir,      \* mode of the directory of the known-hosts file, or "none"
    tempdir,      \* TRUE while the temporary directory exists
    key_file,     \* <tempdir>/git_key
    manifest,     \* <tempdir>/pyproject.toml
    initial,      \* the known-hosts file as the run found it
    locals,       \* local variables of the running functions
    calls         \* external commands and collaborators invoked, in order

vars == <<prog, pc, outcome, pending, environ, known_hosts, ssh_dir, tempdir,
          key_file, manifest, initial, locals, calls>>

StartPc(p) ==
    CASE p \in Mains -> "main_start"
      [] p = "add_github_to_known_hosts" -> "agkh_makedirs"
      [] p = "validate_known_good_hosts" -> "vkgh_keygen"
      [] p = "load_github_key" -> "lgk_mkdtemp"
      [] p = "set_git_mail_config" -> "sgmc_email"
      [] p = "update_git_remote" -> "ugr_remote"
      [] p = "install_ssh_agent" -> "isa_which"
      [] OTHER -> "doc_start"

\* The inputs a program reads; those it never reads are held at one value.
Environments(p) ==
    { [ GIT_KEY |-> k, debug |-> d, ssh_agent_on_path |-> a, umask |-> u,
        DOCUMENTATION_FORMATS |-> f, DOCUMENTATION_PUBLISH |-> b, arg |-> g ] :
        k \in (IF p \in Mains THEN GitKeyValues ELSE {None}),
        d \in (IF p \in {"setup_ssh_main", "validate_known_good_hosts"}
               THEN BOOLEAN ELSE {FALSE}),
        a \in (IF p \in {"setup_ssh_main", "install_ssh_agent"}
               THEN BOOLEAN ELSE {TRUE}),
        u \in (IF p \in {"setup_ssh_main", "add_deploykey_main",
                         "add_github_to_known_hosts", "load_github_key"}
               THEN {"022", "077"} ELSE {"022"}),
        f \in (IF p = "main" THEN FormatsValues ELSE {None}),
        b \in (IF p = "main" THEN PublishValues ELSE {"unset"}),
        g \in (IF p = "load_github_key" THEN LoadKeyArgs ELSE {None}) }

Init ==
    /\ prog \in Programs
    /\ pc = StartPc(prog)
    /\ outcome = Running
    /\ pending = "None"
    /\ environ \in Environments(prog)
    /\ known_hosts \in (IF prog \in {"setup_ssh_main", "add_github_to_known_hosts"}
                        THEN KnownHostsStates ELSE {NoFile})
    /\ ssh_dir = (IF known_hosts.exists THEN "0755" ELSE "none")
    /\ tempdir = FALSE
    /\ key_file = NoFile
    /\ manifest = NoFile
    /\ initial = known_hosts
    /\ locals = [NoLocals EXCEPT !.git_key = environ.arg]
    /\ calls = <<>>

\* Where control goes when function fn returns.
Ret(fn) ==
    CASE prog = "setup_ssh_main" /\ fn = "install_ssh_agent" -> "agkh_makedirs"
      [] prog = "setup_ssh_main" /\ fn = "add_github_to_known_hosts" -> "vkgh_keygen"
      [] prog = "add_deploykey_main" /\ fn = "load_github_key" -> "sgmc_email"
      [] prog = "add_deploykey_main" /\ fn = "set_git_mail_config" -> "ugr_remote"
      [] prog \in Mains -> "main_return"
      [] OTHER -> "fn_return"

Call(cmd, args, ok) == [cmd |-> cmd, args |-> args, ok |-> ok]

\* subprocess.call, which drops the exit status: nothing is raised.
check_call_unchecked(ok) == "None"

\* subprocess.check_call / check_output: a non-zero exit status raises.
check_call(ok) == IF ok THEN "None" ELSE "CalledProcessError"

\* The fchmod call left out: the file keeps the mode it was opened with.
fchmod_skipped(file, mode) == file

\* os.fchmod(fd, mode)
fchmod(file, mode) == [file EXCEPT !.mode = mode]

\* open(name, 'w') / open(name, 'ab'): creates the file when missing; 'w'
\* truncates, 'ab' keeps the content and positions every write at the end.
open(file, flags, umask) ==
    IF ~file.exists
    THEN [exists |-> TRUE, mode |-> CreateMode(umask), data |-> <<>>, buf |-> <<>>, open |-> TRUE]
    ELSE [file EXCEPT !.open = TRUE, !.buf = <<>>,
                      !.data = IF flags = "w" THEN <<>> ELSE file.data]

\* fh.write on a binary file: the bytes go to the writer's buffer.
write(file, data) == [file EXCEPT !.buf = file.buf \o data]

\* fh.write on a text file: only str is accepted; it is encoded on the way.
text_write(file, value) ==
    IF value.t # "str" THEN [exc |-> "TypeError", file |-> file]
    ELSE [exc |-> "None", file |-> write(file, Utf8Encode(value.v))]

\* Leaving "with open(...)": the buffer is flushed and the file closed.
close(file) == [file EXCEPT !.data = file.data \o file.buf, !.buf = <<>>, !.open = FALSE]

\* A clean-up written after the body instead of in a scoped resource: it is
\* skipped when an exception passes through.
TemporaryDirectory_exit_on_success(exc) == exc # "None"

\* tempfile.TemporaryDirectory.__exit__(exc): whether the directory still
\* exists afterwards.  It is removed whatever exception is passing through.
TemporaryDirectory_exit(exc) == FALSE

\* logger.debug(msg, file=sys.stderr): when the logger is enabled for DEBUG
\* the keyword is handed to Logger._log, which does not accept it.
logger_debug(enabled) == IF enabled THEN "TypeError" ELSE "None"

\* ------------------------------------------------------------------------
\* Entry points of github_deploykey.py
\* ------------------------------------------------------------------------
setup_ssh_main ==
    /\ pc = "main_start" /\ prog = "setup_ssh_main"
    /\ LET r == git_key_secret(environ.GIT_KEY) IN
       IF r.exc # "None"
       THEN pc' = "done" /\ outcome' = Raised(r.exc) /\ UNCHANGED locals
       ELSE /\ locals' = [locals EXCEPT !.git_key = r.val]
            /\ IF Falsy(r.val)
               THEN pc' = "done" /\ outcome' = Returned("0")
               ELSE pc' = "isa_which" /\ UNCHANGED outcome
    /\ UNCHANGED <<prog, pending, environ, known_hosts, ssh_dir, tempdir,
                   key_file, manifest, initial, calls>>

add_deploykey_main ==
    /\ pc = "main_start" /\ prog = "add_deploykey_main"
    /\ LET r == git_key_secret(environ.GIT_KEY) IN
       IF r.exc # "None"
       THEN pc' = "done" /\ outcome' = Raised(r.exc) /\ UNCHANGED locals
       ELSE /\ locals' = [locals EXCEPT !.git_key = r.val]
            /\ IF Falsy(r.val)
               THEN pc' = "done" /\ outcome' = Returned("0")
               ELSE pc' = "lgk_mkdtemp" /\ UNCHANGED outcome
    /\ UNCHANGED <<prog, pending, environ, known_hosts, ssh_dir, tempdir,
                   key_file, manifest, initial, calls>>

\* "return 0" at the end of either entry point.
main_return ==
    /\ pc = "main_return"
    /\ pc' = "done" /\ outcome' = Returned("0")
    /\ UNCHANGED <<prog, pending, environ, known_hosts, ssh_dir, tempdir,
                   key_file, manifest, initial, locals, calls>>

\* A function called on its own falls off its end.
fn_return ==
    /\ pc = "fn_return"
    /\ pc' = "done" /\ outcome' = Returned("None")
    /\ UNCHANGED <<prog, pending, environ, known_hosts, ssh_dir, tempdir,
                   key_file, manifest, initial, locals, calls>>

\* ------------------------------------------------------------------------
\* install_ssh_agent
\* ------------------------------------------------------------------------
install_ssh_agent_which ==
    /\ pc = "isa_which"
    /\ pc' = IF environ.ssh_agent_on_path THEN Ret("install_ssh_agent") ELSE "isa_enter"
    /\ UNCHANGED <<prog, outcome, pending, environ, known_hosts, ssh_dir, tempdir,
                   key_file, manifest, initial, locals, calls>>

InTemporaryDirectory_enter ==
    /\ pc = "isa_enter"
    /\ tempdir' = TRUE
    /\ pc' = "isa_open"
    /\ UNCHANGED <<prog, outcome, pending, environ, known_hosts, ssh_dir,
                   key_file, manifest, initial, locals, calls>>

install_ssh_agent_open ==
    /\ pc = "isa_open"
    /\ manifest' = open(manifest, "w", environ.umask)
    /\ pc' = "isa_write"
    /\ UNCHANGED <<prog, outcome, pending, environ, known_hosts, ssh_dir, tempdir,
                   key_file, initial, locals, calls>>

install_ssh_agent_write ==
    /\ pc = "isa_write"
    /\ manifest' = write(manifest, ssh_agent_deploy_conf)
    /\ pc' = "isa_installdeps"
    /\ UNCHANGED <<prog, outcome, pending, environ, known_hosts, ssh_dir, tempdir,
                   key_file, initial, locals, calls>>

\* installdeps_main() runs inside the "with open" block: the manifest it
\* finds in the working directory is what has reached the disk by then.
install_ssh_agent_installdeps ==
    /\ pc = "isa_installdeps"
    /\ calls' = Append(calls, Call("installdeps_main", manifest.data, TRUE))
    /\ pc' = "isa_close"
    /\ UNCHANGED <<prog, outcome, pending, environ, known_hosts, ssh_dir, tempdir,
                   key_file, manifest, initial, locals>>

install_ssh_agent_close ==
    /\ pc = "isa_close"
    /\ manifest' = close(manifest)
    /\ pc' = "isa_exit"
    /\ UNCHANGED <<prog, outcome, pending, environ, known_hosts, ssh_dir, tempdir,
                   key_file, initial, locals, calls>>

InTemporaryDirectory_exit ==
    /\ pc = "isa_exit"
    /\ tempdir' = FALSE
    /\ manifest' = NoFile
    /\ pc' = Ret("install_ssh_agent")
    /\ UNCHANGED <<prog, outcome, pending, environ, known_hosts, ssh_dir,
                   key_file, initial, locals, calls>>

\* ------------------------------------------------------------------------
\* add_github_to_known_hosts
\* ------------------------------------------------------------------------
add_github_to_known_hosts_makedirs ==
    /\ pc = "agkh_makedirs"
    /\ ssh_dir' = IF ssh_dir = "none" THEN "0700" ELSE ssh_dir
    /\ pc' = "agkh_keyscan"
    /\ UNCHANGED <<prog, outcome, pending, environ, known_hosts, tempdir,
                   key_file, manifest, initial, locals, calls>>

add_github_to_known_hosts_keyscan ==
    /\ pc = "agkh_keyscan"
    /\ \E ok \in BOOLEAN, out \in ScanOutputs :
        /\ calls' = Append(calls, Call("ssh-keyscan", <<"-H", "github.com">>, ok))
        /\ IF check_call(ok) # "None"
           THEN pc' = "done" /\ outcome' = Raised(check_call(ok)) /\ UNCHANGED locals
           ELSE /\ pc' = "agkh_open"
                /\ locals' = [locals EXCEPT !.github_hosts = out]
                /\ UNCHANGED outcome
    /\ UNCHANGED <<prog, pending, environ, known_hosts, ssh_dir, tempdir,
                   key_file, manifest, initial>>

add_github_to_known_hosts_open ==
    /\ pc = "agkh_open"
    /\ known_hosts' = open(known_hosts, "ab", environ.umask)
    /\ pc' = "agkh_fchmod"
    /\ UNCHANGED <<prog, outcome, pending, environ, ssh_dir, tempdir,
                   key_file, manifest, initial, locals, calls>>

add_github_to_known_hosts_fchmod ==
    /\ pc = "agkh_fchmod"
    /\ known_hosts' = fchmod(known_hosts, "0600")
    /\ pc' = "agkh_write"
    /\ UNCHANGED <<prog, outcome, pending, environ, ssh_dir, tempdir,
                   key_file, manifest, initial, locals, calls>>

add_github_to_known_hosts_write ==
    /\ pc = "agkh_write"
    /\ known_hosts' = write(write(known_hosts, <<"\n">>), locals.github_hosts)
    /\ pc' = "agkh_close"
    /\ UNCHANGED <<prog, outcome, pending, environ, ssh_dir, tempdir,
                   key_file, manifest, initial, locals, calls>>

add_github_to_known_hosts_close ==
    /\ pc = "agkh_close"
    /\ known_hosts' = close(known_hosts)
    /\ pc' = Ret("add_github_to_known_hosts")
    /\ UNCHANGED <<prog, outcome, pending, environ, ssh_dir, tempdir,
                   key_file, manifest, initial, locals, calls>>

\* ------------------------------------------------------------------------
\* validate_known_good_hosts
\* ------------------------------------------------------------------------
validate_known_good_hosts_keygen ==
    /\ pc = "vkgh_keygen"
    /\ \E ok \in BOOLEAN, out \in KeygenOutputs :
        /\ calls' = Append(calls, Call("ssh-keygen", <<"-l", "-f">>, ok))
        /\ IF check_call(ok) # "None"
           THEN pc' = "done" /\ outcome' = Raised(check_call(ok)) /\ UNCHANGED locals
           ELSE /\ pc' = "vkgh_loop"
                /\ locals' = [locals EXCEPT !.output = Bytes(out), !.match = FALSE, !.idx = 1]
                /\ UNCHANGED outcome
    /\ UNCHANGED <<prog, pending, environ, known_hosts, ssh_dir, tempdir,
                   key_file, manifest, initial>>

\* One iteration of "for desc, fingerprint in fingerprints.items()".
validate_known_good_hosts_loop ==
    /\ pc = "vkgh_loop" /\ locals.idx <= Len(fingerprints)
    /\ LET found == PyIn(fingerprints[locals.idx].fingerprint, locals.output) IN
       IF found.exc # "None"
       THEN pc' = "done" /\ outcome' = Raised(found.exc) /\ UNCHANGED locals
       ELSE IF ~found.val
       THEN IF logger_debug(environ.debug) # "None"
            THEN /\ pc' = "done" /\ outcome' = Raised(logger_debug(environ.debug))
                 /\ UNCHANGED locals
            ELSE /\ locals' = [locals EXCEPT !.idx = locals.idx + 1]
                 /\ UNCHANGED <<pc, outcome>>
       ELSE /\ locals' = [locals EXCEPT !.match = TRUE, !.idx = locals.idx + 1]
            /\ UNCHANGED <<pc, outcome>>
    /\ UNCHANGED <<prog, pending, environ, known_hosts, ssh_dir, tempdir,
                   key_file, manifest, initial, calls>>

\* "return match"; setup_ssh_main discards the value.
validate_known_good_hosts_return ==
    /\ pc = "vkgh_loop" /\ locals.idx > Len(fingerprints)
    /\ IF prog = "setup_ssh_main"
       THEN pc' = Ret("validate_known_good_hosts") /\ UNCHANGED outcome
       ELSE pc' = "done" /\ outcome' = Returned(IF locals.match THEN "True" ELSE "False")
    /\ UNCHANGED <<prog, pending, environ, known_hosts, ssh_dir, tempdir,
                   key_file, manifest, initial, locals, calls>>

\* ------------------------------------------------------------------------
\* load_github_key
\* ------------------------------------------------------------------------
load_github_key_mkdtemp ==
    /\ pc = "lgk_mkdtemp"
    /\ tempdir' = TRUE
    /\ pc' = "lgk_open"
    /\ UNCHANGED <<prog, outcome, pending, environ, known_hosts, ssh_dir,
                   key_file, manifest, initial, locals, calls>>

load_github_key_open ==
    /\ pc = "lgk_open"
    /\ key_file' = open(key_file, "w", environ.umask)
    /\ pc' = "lgk_fchmod"
    /\ UNCHANGED <<prog, outcome, pending, environ, known_hosts, ssh_dir, tempdir,
                   manifest, initial, locals, calls>>

load_github_key_fchmod ==
    /\ pc = "lgk_fchmod"
    /\ key_file' = fchmod(key_file, "0600")
    /\ pc' = "lgk_write"
    /\ UNCHANGED <<prog, outcome, pending, environ, known_hosts, ssh_dir, tempdir,
                   manifest, initial, locals, calls>>

load_github_key_write ==
    /\ pc = "lgk_write"
    /\ LET w == text_write(key_file, locals.git_key) IN
        /\ key_file' = w.file
        /\ pending' = w.exc
    /\ pc' = "lgk_close"
    /\ UNCHANGED <<prog, outcome, environ, known_hosts, ssh_dir, tempdir,
                   manifest, initial, locals, calls>>

\* Leaving "with open(key_filename, 'w')", normally or with an exception.
load_github_key_close ==
    /\ pc = "lgk_close"
    /\ key_file' = close(key_file)
    /\ pc' = IF pending # "None" THEN "lgk_cleanup" ELSE "lgk_ssh_add"
    /\ UNCHANGED <<prog, outcome, pending, environ, known_hosts, ssh_dir, tempdir,
                   manifest, initial, locals, calls>>

load_github_key_ssh_add ==
    /\ pc = "lgk_ssh_add"
    /\ \E ok \in BOOLEAN :
        /\ calls' = Append(calls, Call("ssh-add", key_file.data, ok))
        /\ pending' = check_call(ok)
    /\ pc' = "lgk_cleanup"
    /\ UNCHANGED <<prog, outcome, environ, known_hosts, ssh_dir, tempdir,
                   key_file, manifest, initial, locals>>

\* Leaving "with tempfile.TemporaryDirectory()".
load_github_key_cleanup ==
    /\ pc = "lgk_cleanup"
    /\ tempdir' = TemporaryDirectory_exit(pending)
    /\ key_file' = IF tempdir' THEN key_file ELSE NoFile
    /\ pending' = "None"
    /\ IF pending # "None"
       THEN pc' = "done" /\ outcome' = Raised(pending)
       ELSE pc' = Ret("load_github_key") /\ UNCHANGED outcome
    /\ UNCHANGED <<prog, environ, known_hosts, ssh_dir, manifest, initial, locals, calls>>

\* ------------------------------------------------------------------------
\* set_git_mail_config
\* ------------------------------------------------------------------------
set_git_mail_config_email ==
    /\ pc = "sgmc_email"
    /\ \E ok \in BOOLEAN :
        /\ calls' = Append(calls, Call("git config", <<"--global", "user.email", "dev-null@screwdriver.cd">>, ok))
        /\ IF check_call(ok) # "None"
           THEN pc' = "done" /\ outcome' = Raised(check_call(ok))
           ELSE pc' = "sgmc_name" /\ UNCHANGED outcome
    /\ UNCHANGED <<prog, pending, environ, known_hosts, ssh_dir, tempdir,
                   key_file, manifest, initial, locals>>

set_git_mail_config_name ==
    /\ pc = "sgmc_name"
    /\ \E ok \in BOOLEAN :
        /\ calls' = Append(calls, Call("git config", <<"--global", "user.name", "sd-buildbot">>, ok))
        /\ IF check_call(ok) # "None"
           THEN pc' = "done" /\ outcome' = Raised(check_call(ok))
           ELSE pc' = Ret("set_git_mail_config") /\ UNCHANGED outcome
    /\ UNCHANGED <<prog, pending, environ, known_hosts, ssh_dir, tempdir,
                   key_file, manifest, initial, locals>>

\* ------------------------------------------------------------------------
\* update_git_remote
\* ------------------------------------------------------------------------
RECURSIVE LStripChar(_, _)
LStripChar(s, c) == IF s # <<>> /\ Head(s) = c THEN LStripChar(Tail(s), c) ELSE s

\* urllib.parse.urlparse, for the netloc and path of scheme://netloc/path.
urlparse(u) ==
    IF ~Contains(<<":", "/", "/">>, u) THEN [netloc |-> <<>>, path |-> u]
    ELSE LET k == CHOOSE i \in 1..Len(u) :
                      /\ SubSeq(u, i, i + 2) = <<":", "/", "/">>
                      /\ \A j \in 1..(i - 1) : SubSeq(u, j, j + 2) # <<":", "/", "/">>
             rest == SubSeq(u, k + 3, Len(u))
             n == IF \E i \in 1..Len(rest) : rest[i] = "/"
                  THEN CHOOSE i \in 1..Len(rest) :
                           rest[i] = "/" /\ \A j \in 1..(i - 1) : rest[j] # "/"
                  ELSE Len(rest) + 1
         IN [netloc |-> SubSeq(rest, 1, n - 1), path |-> SubSeq(rest, n, Len(rest))]

\* The body of "for line in remote_output.split(b'\n')" for one line of the
\* type the output has: an exception, or the new URL (None: continue).
update_git_remote_line(line) ==
    LET fields == SplitWS(Strip(line.v)) IN
    IF Len(fields) # 3 THEN [exc |-> "ValueError", url |-> None]
    ELSE LET remote == [t |-> line.t, v |-> fields[1]]
             old_git_url == [t |-> line.t, v |-> fields[2]]
             remote_type == [t |-> line.t, v |-> fields[3]]
             has_http == PyIn(Str(Http), old_git_url)
         IN IF remote # Bytes(Origin) THEN [exc |-> "None", url |-> None]
            ELSE IF remote_type # Bytes(PushType) THEN [exc |-> "None", url |-> None]
            ELSE IF has_http.exc # "None" THEN [exc |-> has_http.exc, url |-> None]
            ELSE IF ~has_http.val THEN [exc |-> "None", url |-> None]
            ELSE IF old_git_url.t # "str" THEN [exc |-> "TypeError", url |-> None]
            ELSE LET parsed_url == urlparse(old_git_url.v) IN
                 [exc |-> "None",
                  url |-> Str(<<"g","i","t","@">> \o parsed_url.netloc \o <<":">>
                              \o LStripChar(parsed_url.path, "/"))]

update_git_remote_list ==
    /\ pc = "ugr_remote"
    /\ \E ok \in BOOLEAN, out \in RemoteOutputs :
        /\ calls' = Append(calls, Call("git remote", <<"-v">>, ok))
        /\ IF check_call(ok) # "None"
           THEN pc' = "done" /\ outcome' = Raised(check_call(ok)) /\ UNCHANGED locals
           ELSE /\ pc' = "ugr_loop"
                /\ locals' = [locals EXCEPT !.output = Bytes(out),
                                            !.lines = SplitOn(out, "\n"),
                                            !.idx = 1, !.new_git_url = None]
                /\ UNCHANGED outcome
    /\ UNCHANGED <<prog, pending, environ, known_hosts, ssh_dir, tempdir,
                   key_file, manifest, initial>>

update_git_remote_loop ==
    /\ pc = "ugr_loop" /\ locals.idx <= Len(locals.lines)
    /\ LET r == update_git_remote_line(Bytes(locals.lines[locals.idx])) IN
       IF r.exc # "None"
       THEN pc' = "done" /\ outcome' = Raised(r.exc) /\ UNCHANGED locals
       ELSE IF r.url # None
       THEN /\ locals' = [locals EXCEPT !.new_git_url = r.url]
            /\ pc' = "ugr_seturl" /\ UNCHANGED outcome
       ELSE /\ locals' = [locals EXCEPT !.idx = locals.idx + 1]
            /\ pc' = (IF locals.idx + 1 > Len(locals.lines) THEN "ugr_seturl" ELSE "ugr_loop")
            /\ UNCHANGED outcome
    /\ UNCHANGED <<prog, pending, environ, known_hosts, ssh_dir, tempdir,
                   key_file, manifest, initial, calls>>

update_git_remote_seturl ==
    /\ pc = "ugr_seturl"
    /\ IF ~Falsy(locals.new_git_url)
       THEN \E ok \in BOOLEAN :
               /\ calls' = Append(calls, Call("git remote set-url", locals.new_git_url.v, ok))
               /\ IF check_call(ok) # "None"
                  THEN pc' = "done" /\ outcome' = Raised(check_call(ok))
                  ELSE pc' = Ret("update_git_remote") /\ UNCHANGED outcome
       ELSE pc' = Ret("update_git_remote") /\ UNCHANGED <<outcome, calls>>
    /\ UNCHANGED <<prog, pending, environ, known_hosts, ssh_dir, tempdir,
                   key_file, manifest, initial, locals>>

\* ------------------------------------------------------------------------
\* documentation/cli.py
\* ------------------------------------------------------------------------
\* utility.env_bool(name, default): the default when the variable is unset,
\* else whether its text is one of the true words.
env_bool(value, default) ==
    IF value = "unset" THEN default ELSE value \in {"true", "1", "on", "yes"}

\* [_.strip() for _ in documentation_formats.split(',')]
split_formats(s) ==
    LET parts == SplitOn(s, ",") IN [i \in 1..Len(parts) |-> Strip(parts[i])]

\* ", ".join(documentation_formats): needs an iterable of str.
join_formats(formats) ==
    IF formats.t = "None" THEN [exc |-> "TypeError", val |-> <<>>]
    ELSE IF formats.t = "str" THEN [exc |-> "None", val |-> Join([i \in 1..Len(formats.v) |-> <<formats.v[i]>>])]
    ELSE [exc |-> "None", val |-> Join(formats.v)]

main_formats ==
    /\ pc = "doc_start"
    /\ locals' = [locals EXCEPT !.documentation_formats =
                     IF Falsy(environ.DOCUMENTATION_FORMATS)
                     THEN environ.DOCUMENTATION_FORMATS
                     ELSE [t |-> "list", v |-> split_formats(environ.DOCUMENTATION_FORMATS.v)]]
    /\ pc' = "doc_dispatch"
    /\ UNCHANGED <<prog, outcome, pending, environ, known_hosts, ssh_dir, tempdir,
                   key_file, manifest, initial, calls>>

\* The provider operation ends normally or raises one of its two errors
\* (build-only can only fail to build); either error becomes sys.exit(1).
main_dispatch ==
    /\ pc = "doc_dispatch"
    /\ LET publish == env_bool(environ.DOCUMENTATION_PUBLISH, TRUE) IN
       \E result \in (IF publish THEN {"None", "DocBuildError", "DocPublishError"}
                      ELSE {"None", "DocBuildError"}) :
          /\ calls' = Append(calls, Call(IF publish THEN "publish_documentation"
                                         ELSE "build_documentation",
                                         locals.documentation_formats, result = "None"))
          /\ IF result # "None"
             THEN pc' = "done" /\ outcome' = Exited("1")
             ELSE pc' = "doc_status" /\ UNCHANGED outcome
    /\ UNCHANGED <<prog, pending, environ, known_hosts, ssh_dir, tempdir,
                   key_file, manifest, initial, locals>>

main_status ==
    /\ pc = "doc_status"
    /\ LET message == join_formats(locals.documentation_formats) IN
       IF message.exc # "None"
       THEN outcome' = Raised(message.exc) /\ UNCHANGED calls
       ELSE /\ calls' = Append(calls, Call("update_job_status",
                                           <<"SUCCESS">> \o message.val, TRUE))
            /\ outcome' = Returned("None")
    /\ pc' = "done"
    /\ UNCHANGED <<prog, pending, environ, known_hosts, ssh_dir, tempdir,
                   key_file, manifest, initial, locals>>

\* ------------------------------------------------------------------------
\* Specification
\* ------------------------------------------------------------------------
Next ==
    \/ setup_ssh_main
    \/ add_deploykey_main
    \/ main_return
    \/ fn_return
    \/ install_ssh_agent_which
    \/ InTemporaryDirectory_enter
    \/ install_ssh_agent_open
    \/ install_ssh_agent_write
    \/ install_ssh_agent_installdeps
    \/ install_ssh_agent_close
    \/ InTemporaryDirectory_exit
    \/ add_github_to_known_hosts_makedirs
    \/ add_github_to_known_hosts_keyscan
    \/ add_github_to_known_hosts_open
    \/ add_github_to_known_hosts_fchmod
    \/ add_github_to_known_hosts_write
    \/ add_github_to_known_hosts_close
    \/ validate_known_good_hosts_keygen
    \/ validate_known_good_hosts_loop
    \/ validate_known_good_hosts_return
    \/ load_github_key_mkdtemp
    \/ load_github_key_open
    \/ load_github_key_fchmod
    \/ load_github_key_write
    \/ load_github_key_close
    \/ load_github_key_ssh_add
    \/ load_github_key_cleanup
    \/ set_git_mail_config_email
    \/ set_git_mail_config_name
    \/ update_git_remote_list
    \/ update_git_remote_loop
    \/ update_git_remote_seturl
    \/ main_formats
    \/ main_dispatch
    \/ main_status

Spec == Init /\ [][Next]_vars

\* ------------------------------------------------------------------------
\* Properties
\* ------------------------------------------------------------------------
Subprocesses ==
    { "ssh-keyscan", "ssh-keygen", "ssh-add", "git config", "git remote",
      "git remote set-url" }

AllCallsOk == \A i \in 1..Len(calls) : calls[i].ok

CmdsOf(cs) == [i \in 1..Len(cs) |-> cs[i].cmd]

\* C1: when GIT_KEY is unset or empty, setup_ssh_main and add_deploykey_main
\* return 0 at once: no subprocess and no installer is ever invoked, no file
\* or directory is touched, and the run ends with return value 0.
C1_NoSecretNoOp ==
    (prog \in Mains /\ Falsy(environ.GIT_KEY)) =>
        /\ calls = <<>>
        /\ pc \in {"main_start", "done"}
        /\ (pc = "done" => outcome = Returned("0"))
        /\ ~tempdir /\ known_hosts = initial /\ key_file = NoFile /\ manifest = NoFile

C1_Witness ==
    /\ prog = "setup_ssh_main" /\ environ.GIT_KEY = None
    /\ pc = "done" /\ outcome = Returned("0")

\* C2 (documented behaviour, which the code does not meet): with GIT_KEY the base64 encoding of a key and every
\* external command succeeding, add_deploykey_main ends with return value 0
\* after exactly these calls, in this order: ssh-add on a file holding the
\* decoded key, git config user.email, git config user.name, git remote -v
\* (and possibly the rewrite of the remote).
C2_AddDeploykeyPipeline ==
    ( /\ prog = "add_deploykey_main" /\ pc = "done"
      /\ ~Falsy(environ.GIT_KEY)
      /\ git_key_secret(environ.GIT_KEY).exc = "None"
      /\ ~Falsy(git_key_secret(environ.GIT_KEY).val)
      /\ AllCallsOk ) =>
        /\ outcome = Returned("0")
        /\ Len(calls) >= 4
        /\ SubSeq(CmdsOf(calls), 1, 4) = <<"ssh-add", "git config", "git config", "git remote">>
        /\ calls[1].args = git_key_secret(environ.GIT_KEY).val.v
        /\ calls[2].args[2] = "user.email"
        /\ calls[3].args[2] = "user.name"

\* The URL the claim expects for an HTTP(S) URL: git@<host>:<path>.
ExpectedSshUrl(url) ==
    <<"g","i","t","@">> \o urlparse(url).netloc \o <<":">> \o LStripChar(urlparse(url).path, "/")

IsHttpUrl(url) ==
    \/ SubSeq(url, 1, 7) = <<"h","t","t","p",":","/","/">>
    \/ SubSeq(url, 1, 8) = <<"h","t","t","p","s",":","/","/">>

RemoteEntries(out) ==
    LET lines == SplitOn(out, "\n") IN
    { SplitWS(Strip(lines[i])) : i \in 1..Len(lines) }

\* Every line of the output is a remote entry of three fields.
WellFormedRemotes(out) == \A e \in RemoteEntries(out) : Len(e) = 3

OriginPushHttp(out) ==
    { e \in RemoteEntries(out) :
        Len(e) = 3 /\ e[1] = Origin /\ e[3] = PushType /\ IsHttpUrl(e[2]) }

\* C3 (documented behaviour, which the code does not meet): on a listing of well-formed remote entries,
\* update_git_remote issues git remote set-url --push origin <url> exactly
\* when there is an origin (push) entry with an HTTP(S) URL, with
\* <url> = git@<host>:<path>; otherwise it issues no rewrite and returns
\* normally.
C3_RewriteIffHttp ==
    ( /\ prog = "update_git_remote" /\ pc = "done"
      /\ Len(calls) >= 1 /\ calls[1].ok
      /\ WellFormedRemotes(locals.output.v) ) =>
        IF OriginPushHttp(locals.output.v) # {}
        THEN /\ Len(calls) = 2
             /\ calls[2].cmd = "git remote set-url"
             /\ \E e \in OriginPushHttp(locals.output.v) : calls[2].args = ExpectedSshUrl(e[2])
        ELSE /\ Len(calls) = 1
             /\ outcome = Returned("None")

HasKnownFingerprint(output) ==
    Contains(OldFingerprint, output) \/ Contains(NewFingerprint, output)

\* C4 (documented behaviour, which the code does not meet): when ssh-keygen -l -f succeeds, validate_known_good_hosts
\* returns True if its output contains at least one of the two registered
\* fingerprints and returns False, without raising, if it contains neither.
C4_ValidateReturnsMatch ==
    ( /\ prog = "validate_known_good_hosts" /\ pc = "done"
      /\ Len(calls) = 1 /\ calls[1].ok ) =>
        outcome = Returned(IF HasKnownFingerprint(locals.output.v) THEN "True" ELSE "False")

\* C5 (documented behaviour, which the code does not meet): with GIT_KEY present and every external command
\* succeeding, setup_ssh_main installs the agent if missing, adds the known
\* hosts, validates, and returns 0 whatever fingerprints were found and
\* whatever the logging level.
C5_SetupReturnsZero ==
    ( /\ prog = "setup_ssh_main" /\ pc = "done"
      /\ git_key_secret(environ.GIT_KEY).exc = "None"
      /\ ~Falsy(git_key_secret(environ.GIT_KEY).val)
      /\ AllCallsOk ) =>
        /\ outcome = Returned("0")
        /\ CmdsOf(calls) = (IF environ.ssh_agent_on_path THEN <<>> ELSE <<"installdeps_main">>)
                               \o <<"ssh-keyscan", "ssh-keygen">>

InLoadGithubKey ==
    pc \in {"lgk_open", "lgk_fchmod", "lgk_write", "lgk_close", "lgk_ssh_add", "lgk_cleanup"}

\* C6: once load_github_key has finished, by a normal return, by a failure of
\* ssh-add or by a failure of the write of the key, the temporary directory
\* and the key file in it no longer exist.
C6_TempdirRemoved ==
    (prog \in {"load_github_key", "add_deploykey_main"} /\ ~InLoadGithubKey) =>
        (~tempdir /\ ~key_file.exists)

C6_Witness ==
    /\ prog = "load_github_key" /\ pc = "done"
    /\ outcome = Raised("CalledProcessError")
    /\ Len(calls) = 1 /\ calls[1].cmd = "ssh-add" /\ ~calls[1].ok

\* C7: in setup_ssh_main and add_deploykey_main, and in each function they
\* are made of, a subprocess that exits non-zero is the last command the run
\* invokes (nothing after it, no retry); the run then ends with an uncaught
\* CalledProcessError, never with a return value, and a failed ssh-keyscan
\* leaves the known-hosts file as it was.
C7_FailurePropagates ==
    prog # "main" =>
        \A i \in 1..Len(calls) :
            (calls[i].cmd \in Subprocesses /\ ~calls[i].ok) =>
                /\ i = Len(calls)
                /\ pc \in {"done", "lgk_cleanup"}
                /\ outcome.kind # "return"
                /\ (pc = "done" => outcome = Raised("CalledProcessError"))
                /\ (calls[i].cmd = "ssh-keyscan" =>
                        (known_hosts.data = initial.data /\ known_hosts.exists = initial.exists))

C7_Witness ==
    /\ prog = "setup_ssh_main" /\ pc = "done"
    /\ outcome = Raised("CalledProcessError")
    /\ Len(calls) >= 1 /\ calls[Len(calls)].cmd = "ssh-keyscan" /\ ~calls[Len(calls)].ok

\* C8 (documented behaviour, which the code does not meet): the documentation main invokes exactly one provider
\* operation (publish when DOCUMENTATION_PUBLISH is true or unset, build-only
\* otherwise); if it fails the process exits with code 1 and reports no
\* SUCCESS status; if it succeeds a SUCCESS status listing the formats is
\* reported.
C8_DocumentationStatus ==
    (prog = "main" /\ pc = "done") =>
        /\ Len(calls) >= 1
        /\ calls[1].cmd = (IF environ.DOCUMENTATION_PUBLISH \in {"unset", "true"}
                           THEN "publish_documentation" ELSE "build_documentation")
        /\ \A i \in 2..Len(calls) :
               calls[i].cmd \notin {"publish_documentation", "build_documentation"}
        /\ IF calls[1].ok
           THEN /\ Len(calls) = 2
                /\ calls[2].cmd = "update_job_status"
                /\ calls[2].args[1] = "SUCCESS"
           ELSE /\ Len(calls) = 1
                /\ outcome = Exited("1")

InstallerCalls == { i \in 1..Len(calls) : calls[i].cmd = "installdeps_main" }

\* C9 (documented behaviour, which the code does not meet): install_ssh_agent invokes the installer exactly when
\* ssh-agent is not on the search path; when it is, no manifest is written and
\* no installer is called; when it is not, the manifest the installer finds
\* in the temporary working directory holds the package template.
C9_InstallerReadsManifest ==
    prog = "install_ssh_agent" =>
        /\ (pc = "done" => (InstallerCalls # {} <=> ~environ.ssh_agent_on_path))
        /\ (environ.ssh_agent_on_path => (InstallerCalls = {} /\ ~manifest.exists /\ ~tempdir))
        /\ \A i \in InstallerCalls : calls[i].args = ssh_agent_deploy_conf

\* C10: the key file never holds key content, on disk or in the writer's
\* buffer, under a mode other than 0600; the known-hosts file is 0600 from
\* before the first byte is appended, and its content only ever grows from
\* what the run found by a newline followed by the scan output.
C10_ModeBeforeContent ==
    /\ (key_file.data # <<>> \/ key_file.buf # <<>>) => key_file.mode = "0600"
    /\ known_hosts.buf # <<>> => known_hosts.mode = "0600"
    /\ known_hosts.data # initial.data =>
           /\ known_hosts.mode = "0600"
           /\ known_hosts.data = initial.data \o <<"\n">> \o locals.github_hosts
    /\ known_hosts.buf # <<>> => known_hosts.buf = <<"\n">> \o locals.github_hosts

C10_Witness ==
    /\ prog = "load_github_key" /\ pc = "lgk_ssh_add"
    /\ environ.umask = "022"
    /\ key_file.data = DummyKey /\ key_file.mode = "0600"

====
